---- MODULE Spec2Model ----
(***************************************************************************)
(* TelescopeData (telescopestatus/data.py): one instance holding a         *)
(* telescope identifier, a time range and the observation table, driven    *)
(* by __init__, set_data, the chart methods and export_data/read_data.     *)
(* Time is a discrete                                                      *)
(* axis of ticks; tick DefaultMinYear is 1990-01-01.  The archive          *)
(* (astroquery Observations), astropy's Time constructor and the file      *)
(* system are external: their outcomes are chosen nondeterministically.    *)
(***************************************************************************)
EXTENDS Integers, Sequences, FiniteSets, TLC

\* ---------------------------------------------------------------- bounds
\* Largest tick of the time axis (clock values and user-supplied instants).
MaxTime == 2
\* Ticks per calendar day, for the YYYY-MM-DD rendering of an instant.
TicksPerDay == 2
\* Largest result cap (max_data) a caller passes.
MaxCap == 1

\* ------------------------------------------------------------- constants
\* default_min_year = Time('1990-01-01')
DefaultMinYear == 0

\* Python's None where a string is expected.
None == "<None>"

TimeValues == 0..MaxTime

\* to_value("iso", subfmt="date"): the calendar date of an instant.
Date(t) == t \div TicksPerDay

\* ------------------------------------------------------------ identifiers
\* str.upper() on the identifiers that occur ("HST", "JWST" and "" are
\* their own uppercase form).
Upper(s) ==
    CASE s = "jwst" -> "JWST"
      [] s = "Kepler" -> "KEPLER"
      [] s = "nonsense name" -> "NONSENSE NAME"
      [] OTHER -> s

\* Observations.list_missions(): the archive's current mission list.
ListMissions == {"HST", "JWST", "Kepler"}

\* self.telescope in [t.upper() for t in Observations.list_missions()]
KnownMission(t) == t \in {Upper(m) : m \in ListMissions}

\* Truthiness of a str-or-None argument: None and "" are falsy.
Truthy(s) == s # None /\ s # ""

\* ------------------------------------------------------------ time values
\* A time argument: kind "omitted" (parameter left out of __init__), "None",
\* "Time" (astropy Time of instant t), "now" (the string "now"), "iso" (an
\* ISO-8601 string denoting instant t), "int" (a non-zero number).
TimeArg(k, t) == [kind |-> k, t |-> t]
NoTime == TimeArg("None", 0)
Omitted == TimeArg("omitted", 0)

\* Result of a conversion: ok, and the instant when ok.
Converted(t) == [ok |-> TRUE, t |-> t]
Improper == [ok |-> FALSE, t |-> 0]

\* astropy Time(val): an ISO string or a Time gives its instant; any other
\* object (a class, a number without a format) is rejected.
AstropyTime(val) ==
    IF val.kind \in {"iso", "Time"} THEN Converted(val.t) ELSE Improper

\* The builtin class `str`, as a value handed to a constructor.
StrClass == [kind |-> "class", t |-> 0]

validate_and_convert_time_param(time, clock) ==
    CASE time.kind = "now" -> Converted(clock)
      [] time.kind = "iso" -> AstropyTime(StrClass)
      [] time.kind = "Time" -> Converted(time.t)
      [] OTHER -> Improper

\* Truthiness of a time argument: None is falsy, the others are truthy.
TimeGiven(time) == time.kind # "None"

\* Mutant of RangeRejected: the comparison dropped.
RangeNeverRejected(start, end) == FALSE

\* if start_time and end_time: if start_time > end_time: raise
RangeRejected(start, end) == start > end

\* ------------------------------------------------------------------ tables
Columns == <<"instrument_name", "dataproduct_type", "t_exptime">>
Row(i) == [instrument_name |-> i, dataproduct_type |-> "image", t_exptime |-> 10]
Table(cols, rows) == [columns |-> cols, rows |-> rows]

\* pd.DataFrame(): no columns, no rows.
EmptyFrame == Table(<<>>, <<>>)

\* Tables the archive or a cache file can hold.
Tables == { Table(Columns, <<>>),
            Table(Columns, <<Row("NIRCam"), Row("MIRI")>>) }

\* query_criteria(page=1, pagesize=n): at most n rows; no paging without a cap.
Page(table, pagesize) ==
    IF pagesize = 0 \/ Len(table.rows) <= pagesize THEN table
    ELSE Table(table.columns, SubSeq(table.rows, 1, pagesize))

\* ------------------------------------------------------------- environment
\* What the archive and the file system do during one call: whether login,
\* the query and the file read succeed, and the table they hold.
Env(l, q, r, t) == [login_ok |-> l, query_ok |-> q, read_ok |-> r, table |-> t]

\* What a call did to the outside: login/query/read are "none", "ok" or
\* "fail"; pagesize is the cap sent with the query (0: none).
NoIO == [login |-> "none", query |-> "none", read |-> "none", pagesize |-> 0]

\* The instance's fields.
Self(tel, start, end, d) ==
    [telescope |-> tel, start_time |-> start, end_time |-> end, data |-> d]

\* Outcome of a method: the fields afterwards, the exception that left it
\* ("none" when it returned), and its outside effects.
Outcome(self, raised, io) == [self |-> self, raised |-> raised, io |-> io]

\* Mutant of fetch_telescope_data: the login attempted without a token too.
fetch_always_login(self, max_data, token, env) ==
    LET sent == [NoIO EXCEPT !.login = "ok", !.pagesize = max_data]
    IN  IF ~env.login_ok
        THEN Outcome(self, "LoginError", [NoIO EXCEPT !.login = "fail"])
        ELSE IF ~env.query_ok
        THEN Outcome(self, "QueryError", [sent EXCEPT !.query = "fail"])
        ELSE Outcome([self EXCEPT !.data = Page(env.table, max_data)], "none",
                     [sent EXCEPT !.query = "ok"])

\* fetch_telescope_data(max_data, token); max_data 0 stands for None (the
\* code tests its truthiness, so the two agree).
fetch_telescope_data(self, max_data, token, env) ==
    LET logged == IF Truthy(token) THEN [NoIO EXCEPT !.login = "ok"] ELSE NoIO
        sent == [logged EXCEPT !.pagesize = max_data]
    IN  IF Truthy(token) /\ ~env.login_ok
        THEN Outcome(self, "LoginError", [NoIO EXCEPT !.login = "fail"])
        ELSE IF ~env.query_ok
        THEN Outcome(self, "QueryError", [sent EXCEPT !.query = "fail"])
        ELSE Outcome([self EXCEPT !.data = Page(env.table, max_data)], "none",
                     [sent EXCEPT !.query = "ok"])

\* read_data(file_path, file_type): csv and pickle are read; with any other
\* type the local `data` is unbound at the assignment.
read_data(self, file_path, file_type, env) ==
    IF file_type \notin {"csv", "pickle"}
    THEN Outcome(self, "UnboundLocalError", NoIO)
    ELSE IF ~env.read_ok
    THEN Outcome(self, "ReadError", [NoIO EXCEPT !.read = "fail"])
    ELSE Outcome([self EXCEPT !.data = env.table], "none", [NoIO EXCEPT !.read = "ok"])

\* Mutant of NewData: the table left as it was.
KeepData(old) == old

\* self.data = pd.DataFrame()
NewData(old) == EmptyFrame

\* Mutant of Retained: an omitted bound falls back to the default epoch.
RetainedReset(field) == DefaultMinYear

\* `... if start_time else self.start_time`: the stored bound is kept.
Retained(field) == field

\* The arguments of __init__ and set_data.
Args(tel, start, end, max_data, token, path, type) ==
    [telescope |-> tel, start_time |-> start, end_time |-> end, max_data |-> max_data,
     token |-> token, data_file_path |-> path, data_file_type |-> type]

\* set_data(...): the telescope is stored before its membership test; the
\* range is stored and the table reset only once both bounds are validated;
\* whatever the load or the fetch raises is printed and dropped.
set_data(self, args, clock, env) ==
    LET tel == IF Truthy(args.telescope) THEN Upper(args.telescope) ELSE self.telescope
        named == [self EXCEPT !.telescope = tel]
        start == IF TimeGiven(args.start_time)
                 THEN validate_and_convert_time_param(args.start_time, clock)
                 ELSE Converted(Retained(self.start_time))
        end == IF TimeGiven(args.end_time)
               THEN validate_and_convert_time_param(args.end_time, clock)
               ELSE Converted(Retained(self.end_time))
        ranged == Self(tel, start.t, end.t, NewData(self.data))
    IN  IF Truthy(args.telescope) /\ ~KnownMission(tel)
        THEN Outcome(named, "UnknownTelescope", NoIO)
        ELSE IF ~start.ok \/ ~end.ok
        THEN Outcome(named, "InvalidTimeFormat", NoIO)
        ELSE IF RangeRejected(start.t, end.t)
        THEN Outcome(named, "InvalidRange", NoIO)
        ELSE IF Truthy(args.data_file_path)
        THEN IF ~Truthy(args.data_file_type)
             THEN Outcome(ranged, "MissingFileType", NoIO)
             ELSE LET r == read_data(ranged, args.data_file_path, args.data_file_type, env)
                  IN  Outcome(r.self, "none", r.io)
        ELSE LET f == fetch_telescope_data(ranged, args.max_data, args.token, env)
             IN  Outcome(f.self, "none", f.io)

\* The exceptions set_data raises to its caller; each is a ValueError.
ValueErrors == {"UnknownTelescope", "InvalidTimeFormat", "InvalidRange", "MissingFileType"}

\* ---------------------------------------------------------------- charts
\* Series.value_counts(): each value of the column with its number of rows.
ValueCounts(rows, column) ==
    LET vals == { rows[i][column] : i \in DOMAIN rows }
    IN  [ v \in vals |-> Cardinality({ i \in DOMAIN rows : rows[i][column] = v }) ]

\* Result of a chart method: the exception it raised ("none" when it
\* returned a figure), the (label, count) pairs of the figure and the two
\* dates of its title.
Figure(op, raised, counts, between) ==
    [op |-> op, raised |-> raised, counts |-> counts, between |-> between]
NoChart == Figure("none", "none", <<>>, <<>>)

\* _pie_chart(column, ...): self.data[column] raises KeyError when the table
\* has no such column.
pie_chart(self, op, column) ==
    IF \A i \in DOMAIN self.data.columns : self.data.columns[i] # column
    THEN Figure(op, "KeyError", <<>>, <<>>)
    ELSE Figure(op, "none", ValueCounts(self.data.rows, column),
                <<Date(self.start_time), Date(self.end_time)>>)

\* instruments_pie() / data_type_pie(): the title is built first, with
\* self.telescope.upper(), which None does not have.
pie(self, op, column) ==
    IF self.telescope = None
    THEN Figure(op, "AttributeError", <<>>, <<>>)
    ELSE pie_chart(self, op, column)

\* ------------------------------------------------------------ cache file
\* Columns whose values are numbers: the exposure time and the row index
\* that to_csv writes and read_csv reads back as a column.
NumericColumns == {"t_exptime", "Unnamed: 0"}

\* The numbers that occur in a cell.
CellNumbers == 0..10

\* A value as to_csv writes it.
CellText(column, v) == IF column \in NumericColumns THEN ToString(v) ELSE v

\* A cell as read_csv types it: a number when the text is one.
CellValue(text) ==
    IF \E n \in CellNumbers : ToString(n) = text
    THEN CHOOSE n \in CellNumbers : ToString(n) = text
    ELSE text

\* A delimited-text file: the header row and one line per record.
CsvText(header, lines) == [header |-> header, lines |-> lines]

\* DataFrame.to_csv(file_name): the index is written as a first column
\* whose header is empty.
to_csv(table) ==
    CsvText(<<"">> \o table.columns,
            [ i \in 1..Len(table.rows) |->
                <<ToString(i - 1)>>
                \o [ j \in 1..Len(table.columns) |->
                       CellText(table.columns[j], table.rows[i][table.columns[j]]) ] ])

\* The name read_csv gives a header cell: an empty one is "Unnamed: 0"
\* (only the first cell is ever empty here).
HeaderName(cell) == IF cell = "" THEN "Unnamed: 0" ELSE cell

\* pd.read_csv(file_path): every header cell is a column, the first line
\* is not taken as an index.
read_csv(text) ==
    LET names == [ j \in 1..Len(text.header) |-> HeaderName(text.header[j]) ]
    IN  Table(names,
              [ i \in 1..Len(text.lines) |->
                  [ c \in { names[j] : j \in 1..Len(names) } |->
                      CellValue(text.lines[i][CHOOSE j \in 1..Len(names) : names[j] = c]) ] ])

\* What the file holds: nothing, delimited text or a pickled table.
File(kind, text, table) == [kind |-> kind, text |-> text, table |-> table]
NoFile == File("absent", CsvText(<<>>, <<>>), EmptyFrame)

\* export_data(file_name, file_type): csv and pickle are written, any other
\* type writes nothing and raises nothing.
export_data(self, old, file_type) ==
    CASE file_type = "csv" -> File("csv", to_csv(self.data), EmptyFrame)
      [] file_type = "pickle" -> File("pickle", CsvText(<<>>, <<>>), self.data)
      [] OTHER -> old

\* What pd.read_csv / pd.read_pickle make of the file: its table, or an
\* exception when the file is missing or of the other format.
FileEnv(f, file_type) ==
    CASE file_type = "csv" /\ f.kind = "csv" -> Env(TRUE, TRUE, TRUE, read_csv(f.text))
      [] file_type = "pickle" /\ f.kind = "pickle" -> Env(TRUE, TRUE, TRUE, f.table)
      [] OTHER -> Env(TRUE, TRUE, FALSE, EmptyFrame)

\* ---------------------------------------------------------------- scatter
HasColumn(table, column) == \E j \in DOMAIN table.columns : table.columns[j] = column

\* px.scatter(data, x=x, y=y): a name that is no column raises; what the
\* library does with a text column is its own choice (accepts_text).
PxScatterRaises(table, x, y, accepts_text) ==
    \/ ~HasColumn(table, x) \/ ~HasColumn(table, y)
    \/ ({x, y} \ NumericColumns # {} /\ ~accepts_text)

\* What compare_scatter gave: the exception that left it and what it
\* returned ("figure" or "None").
Scatter(x, y, raised, returned) == [x |-> x, y |-> y, raised |-> raised, returned |-> returned]
NoScatter == Scatter(None, None, "none", "none")

\* compare_scatter(x, y): whatever px.scatter raises is printed, and the
\* method ends without a return value.
compare_scatter(self, x, y, accepts_text) ==
    IF PxScatterRaises(self.data, x, y, accepts_text)
    THEN Scatter(x, y, "none", "None")
    ELSE Scatter(x, y, "none", "figure")

\* ------------------------------------------------------------------ inputs
\* Identifiers callers pass: valid ones in two letter cases, an unknown one
\* and the empty string.
TelescopeArgs == {"jwst", "HST", "nonsense name", ""}

\* Time arguments that denote an instant, and pairs of them.
Instants == {TimeArg("now", 0)} \cup { TimeArg("Time", t) : t \in TimeValues }

\* Pairs with ISO-8601 strings or a number in them.
OtherPairs == { <<TimeArg("iso", 0), TimeArg("iso", 1)>>,
                <<TimeArg("iso", 1), NoTime>>, <<NoTime, TimeArg("iso", 0)>>,
                <<TimeArg("int", 0), NoTime>>, <<NoTime, TimeArg("int", 0)>> }

\* (data_file_path, data_file_type) pairs.
FileArgs == {<<None, None>>, <<"obs.csv", "csv">>, <<"obs.csv", None>>, <<"obs.json", "json">>}

\* Calls that give only the identifier, calls that vary the range, and
\* calls that vary the cap, the token and the cache file; `absent` is how
\* the caller leaves a time parameter out.
TelescopeCalls(absent) ==
    { Args(tel, absent, absent, 0, None, None, None) : tel \in TelescopeArgs }
RangeCalls(tel, absent) ==
    { Args(tel, p[1], p[2], 0, None, None, None) :
        p \in ((Instants \cup {absent}) \X (Instants \cup {absent})) \cup OtherPairs }
FetchCalls(tel, absent) ==
    { Args(tel, absent, absent, m, tok, f[1], f[2]) :
        m \in 0..MaxCap, tok \in {None, "tok"}, f \in FileArgs }

\* Calls that give another identifier together with a crossed range or
\* with one bound.
MixedCalls ==
    { Args(tel, p[1], p[2], 0, None, None, None) :
        tel \in {"HST", "nonsense name"},
        p \in { <<TimeArg("Time", MaxTime), TimeArg("Time", 0)>>,
                <<TimeArg("Time", 1), NoTime>> } }

InitCalls == TelescopeCalls(Omitted) \cup RangeCalls("jwst", Omitted)
             \cup FetchCalls("jwst", Omitted) \cup MixedCalls
SetDataCalls == TelescopeCalls(NoTime) \cup RangeCalls(None, NoTime)
                \cup FetchCalls(None, NoTime) \cup MixedCalls

\* The outcomes of the outside world that a call with these arguments can
\* meet: a failed read, a failed login (only with a token), a failed query,
\* or success with one of the tables.
Envs(args) ==
    { Env(TRUE, TRUE, TRUE, t) : t \in Tables }
    \cup (IF Truthy(args.data_file_path)
          THEN { Env(TRUE, TRUE, FALSE, Table(Columns, <<>>)) }
          ELSE { Env(TRUE, FALSE, TRUE, Table(Columns, <<>>)) }
               \cup (IF Truthy(args.token)
                     THEN { Env(FALSE, TRUE, TRUE, Table(Columns, <<>>)) }
                     ELSE {}))

\* ------------------------------------------------------------------- state
VARIABLES
    now,               \* the wall clock, Time.now()
    default_end_time,  \* __init__'s default end_time, evaluated at import
    alive,             \* an instance has been constructed
    telescope, start_time, end_time, data,   \* its fields
    call,              \* the last method call: op, args, raised, io
    chart,             \* the figure of the last call, NoChart when it gives none
    file,              \* what the cache file on disk holds
    scatter            \* what the last call gave when it was compare_scatter

vars == <<now, default_end_time, alive, telescope, start_time, end_time, data, call, chart,
          file, scatter>>

fields == Self(telescope, start_time, end_time, data)

NoArgs == Args(None, NoTime, NoTime, 0, None, None, None)

Call(op, args, raised, io) == [op |-> op, args |-> args, raised |-> raised, io |-> io]

\* Module import: the class statement evaluates Time.now() once.
Init ==
    /\ now = DefaultMinYear + 1
    /\ default_end_time = now
    /\ alive = FALSE
    /\ telescope = None /\ start_time = DefaultMinYear /\ end_time = DefaultMinYear
    /\ data = EmptyFrame
    /\ call = Call("none", NoArgs, "none", NoIO)
    /\ chart = NoChart
    /\ file = NoFile
    /\ scatter = NoScatter

Tick ==
    /\ now < MaxTime
    /\ now' = now + 1
    /\ UNCHANGED <<default_end_time, alive, telescope, start_time, end_time, data, call, chart>>
    /\ UNCHANGED <<file, scatter>>

\* The value __init__ hands to set_data for a time parameter.
Defaulted(time, default) == IF time.kind = "omitted" THEN TimeArg("Time", default) ELSE time

\* TelescopeData(telescope, ...): an exception leaves the caller without an
\* instance.
TelescopeData_init(args, env) ==
    LET passed == [args EXCEPT !.start_time = Defaulted(@, DefaultMinYear),
                               !.end_time = Defaulted(@, default_end_time)]
    IN  /\ ~alive
        /\ \E out \in {set_data(Self(None, DefaultMinYear, now, EmptyFrame), passed, now, env)} :
             \E made \in {IF out.raised = "none" THEN out.self
                           ELSE Self(None, DefaultMinYear, DefaultMinYear, EmptyFrame)} :
                /\ alive' = (out.raised = "none")
                /\ telescope' = made.telescope
                /\ start_time' = made.start_time
                /\ end_time' = made.end_time
                /\ data' = made.data
                /\ call' = Call("__init__", args, out.raised, out.io)
        /\ chart' = NoChart
        /\ scatter' = NoScatter
        /\ UNCHANGED <<now, default_end_time, file>>

Construct == \E args \in InitCalls : \E env \in Envs(args) : TelescopeData_init(args, env)

SetDataCall(args, env) ==
    /\ alive
    /\ \E out \in {set_data(fields, args, now, env)} :
        /\ telescope' = out.self.telescope
        /\ start_time' = out.self.start_time
        /\ end_time' = out.self.end_time
        /\ data' = out.self.data
        /\ call' = Call("set_data", args, out.raised, out.io)
    /\ chart' = NoChart
    /\ scatter' = NoScatter
    /\ UNCHANGED <<now, default_end_time, alive, file>>

Reconfigure == \E args \in SetDataCalls : \E env \in Envs(args) : SetDataCall(args, env)

\* A chart method: the fields are read, the figure or the exception is
\* what the caller gets.
ChartCall(op, column) ==
    LET fig == pie(fields, op, column)
    IN  /\ alive
        /\ chart' = fig
        /\ call' = Call(op, NoArgs, fig.raised, NoIO)
        /\ scatter' = NoScatter
        /\ UNCHANGED <<now, default_end_time, alive, telescope, start_time, end_time, data>>
        /\ UNCHANGED file

InstrumentsPie == ChartCall("instruments_pie", "instrument_name")

DataTypePie == ChartCall("data_type_pie", "dataproduct_type")

Next == Tick \/ Construct \/ Reconfigure \/ InstrumentsPie \/ DataTypePie

Spec == Init /\ [][Next]_vars

\* ------------------------------------------- export, import and scatter
\* The file and type arguments of export_data and read_data.
CacheFile == "telescope_data.csv"
FileTypes == {"csv", "pickle", "json"}
FileCall(file_type) == Args(None, NoTime, NoTime, 0, None, CacheFile, file_type)

\* The names given to compare_scatter.
ScatterColumns == {"t_exptime", "instrument_name", "nonexistent_col"}

\* Constructions and reconfigurations that load from the archive.
ArchiveCalls(tel) == { Args(tel, NoTime, NoTime, m, None, None, None) : m \in 0..MaxCap }

LoadConstruct ==
    \E args \in ArchiveCalls("jwst") : \E env \in Envs(args) : TelescopeData_init(args, env)

LoadReconfigure ==
    \E args \in ArchiveCalls(None) : \E env \in Envs(args) : SetDataCall(args, env)

\* export_data(file_name, file_type): the table is written, no field changes.
\* A table that already carries a read-back index column is not written as
\* csv again, which keeps the number of columns bounded.
ExportDataCall(file_type) ==
    /\ alive
    /\ file_type = "csv" => ~HasColumn(data, "Unnamed: 0")
    /\ file' = export_data(fields, file, file_type)
    /\ call' = Call("export_data", FileCall(file_type), "none", NoIO)
    /\ chart' = NoChart
    /\ scatter' = NoScatter
    /\ UNCHANGED <<now, default_end_time, alive, telescope, start_time, end_time, data>>

Export == \E file_type \in FileTypes : ExportDataCall(file_type)

\* read_data(file_path, file_type) called by the user: what the file holds
\* replaces the table, an exception reaches the caller.
ReadDataCall(file_type) ==
    /\ alive
    /\ \E out \in {read_data(fields, CacheFile, file_type, FileEnv(file, file_type))} :
        /\ data' = out.self.data
        /\ call' = Call("read_data", FileCall(file_type), out.raised, out.io)
    /\ chart' = NoChart
    /\ scatter' = NoScatter
    /\ UNCHANGED <<now, default_end_time, alive, telescope, start_time, end_time, file>>

Import == \E file_type \in FileTypes : ReadDataCall(file_type)

\* compare_scatter(x, y).
CompareScatterCall(x, y, accepts_text) ==
    /\ alive
    /\ \E out \in {compare_scatter(fields, x, y, accepts_text)} :
        /\ scatter' = out
        /\ call' = Call("compare_scatter", NoArgs, out.raised, NoIO)
    /\ chart' = NoChart
    /\ UNCHANGED <<now, default_end_time, alive, telescope, start_time, end_time, data, file>>

CompareScatter ==
    \E x \in ScatterColumns, y \in ScatterColumns : \E accepts_text \in BOOLEAN :
        CompareScatterCall(x, y, accepts_text)

NextTable == LoadConstruct \/ LoadReconfigure \/ Export \/ Import \/ CompareScatter

SpecTable == Init /\ [][NextTable]_vars

\* ------------------------------------------------------------- properties
\* The methods that take the configuration arguments.
ConfigOps == {"__init__", "set_data"}

\* A step that is one __init__ or set_data call, `call'` being its record.
CallStep == call'.op \in ConfigOps /\ now' = now

\* The uppercase forms of the archive's missions, written out.
KnownUpper == {"HST", "JWST", "KEPLER"}

\* The uppercase form of the identifiers callers pass, written out.
Uppercased(s) ==
    CASE s = "jwst" -> "JWST"
      [] s = "nonsense name" -> "NONSENSE NAME"
      [] OTHER -> s

\* C1: every identifier whose uppercase form is not a known mission, the
\* empty string included, makes __init__ and set_data raise
\* UnknownTelescope.
C1_UnknownTelescopeRaises ==
    (call.op \in ConfigOps /\ call.args.telescope # None
        /\ Uppercased(call.args.telescope) \notin KnownUpper)
    => call.raised = "UnknownTelescope"

\* The instant a time argument of the step's call stands for: the argument
\* when it denotes one, else the bound kept from before (for __init__, its
\* parameter default, or the field's initial value when None is passed).
Effective(arg, kept, default, initial) ==
    CASE arg.kind \in {"Time", "iso"} -> arg.t
      [] arg.kind = "now" -> now
      [] arg.kind = "omitted" -> default
      [] OTHER -> IF call'.op = "__init__" THEN initial ELSE kept

EffectiveStart ==
    Effective(call'.args.start_time, start_time, DefaultMinYear, DefaultMinYear)
EffectiveEnd ==
    Effective(call'.args.end_time, end_time, default_end_time, now)

DenoteInstants(args, kinds) ==
    args.start_time.kind \in kinds /\ args.end_time.kind \in kinds

\* C2: start_time <= end_time in every state of an instance; a call whose
\* effective range has start > end raises (a ValueError, the range check's
\* own when the identifier is accepted and the bounds are timestamps or
\* "now") and leaves the stored range as it was.
C2_RangeOrdered ==
    [][ /\ alive' => start_time' <= end_time'
        /\ (CallStep /\ EffectiveStart > EffectiveEnd
             /\ DenoteInstants(call'.args, {"None", "omitted", "Time", "now", "iso"}))
           => /\ call'.raised \in ValueErrors
              /\ call'.op = "set_data" => (start_time' = start_time /\ end_time' = end_time)
              /\ call'.op = "__init__" => ~alive'
        /\ (CallStep /\ EffectiveStart > EffectiveEnd
             /\ DenoteInstants(call'.args, {"None", "omitted", "Time", "now"})
             /\ (~Truthy(call'.args.telescope)
                 \/ Uppercased(call'.args.telescope) \in KnownUpper))
           => call'.raised = "InvalidRange"
      ]_vars

\* A partial set_data whose one new bound crosses the kept one was refused.
C2_Witness ==
    /\ alive /\ call.op = "set_data" /\ call.raised = "InvalidRange"
    /\ call.args.start_time = NoTime /\ call.args.end_time.kind = "Time"
    /\ call.args.end_time.t < start_time

\* C3: a timestamp, an ISO-8601 string and "now" are each converted, so a
\* call with a known identifier whose bounds are of these kinds never fails
\* on the time format; __init__ with two ISO strings in order stores the
\* instants they denote.
C3_IsoStringsAccepted ==
    (call.op \in ConfigOps
        /\ DenoteInstants(call.args, {"None", "omitted", "Time", "now", "iso"})
        /\ Uppercased(call.args.telescope) \in KnownUpper \cup {None})
    => /\ call.raised # "InvalidTimeFormat"
       /\ (call.op = "__init__" /\ DenoteInstants(call.args, {"iso"})
            /\ call.args.start_time.t <= call.args.end_time.t)
          => (alive /\ start_time = call.args.start_time.t
                    /\ end_time = call.args.end_time.t)

\* C4: when the archive query or the cache load of a call fails, nothing is
\* raised to the caller and the table is the empty one, also on a set_data
\* that follows a successful load.
C4_FailedLoadLeavesEmpty ==
    (call.op \in ConfigOps /\ (call.io.query = "fail" \/ call.io.read = "fail"))
    => (call.raised = "none" /\ alive /\ data = EmptyFrame)

\* A capped set_data whose query failed returned with the empty table.
C4_Witness ==
    /\ alive /\ call.op = "set_data" /\ call.raised = "none"
    /\ call.io.query = "fail" /\ call.args.max_data # 0

\* C5: a failed login is raised to the caller of __init__/set_data, and no
\* query follows it.
C5_LoginFailureRaised ==
    (call.op \in ConfigOps /\ call.io.login = "fail")
    => (call.raised = "LoginError" /\ call.io.query = "none")

\* C6: set_data with a known identifier and no time argument stores the
\* uppercase identifier and leaves start_time and end_time as they were.
C6_TelescopeOnly ==
    [][ (CallStep /\ call'.op = "set_data"
         /\ call'.args.telescope # None
         /\ Uppercased(call'.args.telescope) \in KnownUpper
         /\ call'.args.start_time = NoTime /\ call'.args.end_time = NoTime)
        => /\ start_time' = start_time /\ end_time' = end_time
           /\ call'.raised = "none" => telescope' = Uppercased(call'.args.telescope)
      ]_vars

\* The identifier changed on an instance whose range was set by the caller.
C6_Witness ==
    /\ alive /\ call.op = "set_data" /\ call.raised = "none"
    /\ call.args.telescope = "HST" /\ telescope = "HST"
    /\ call.args.start_time = NoTime /\ call.args.end_time = NoTime
    /\ start_time = 1 /\ end_time = MaxTime

\* A call that leaves out the cap, the token and the cache file.
OmitsFetchArgs(args) ==
    /\ args.max_data = 0 /\ args.token = None
    /\ args.data_file_path = None /\ args.data_file_type = None

\* C7 as claimed: a set_data that leaves out max_data, token and the cache
\* file loads as the preceding call did: the same cap on the query, a login
\* if there was one, the cache file instead of a query if that was read.
C7_FetchArgsRetained ==
    [][ (CallStep /\ call.op \in ConfigOps /\ call.raised = "none"
         /\ call'.op = "set_data" /\ call'.raised = "none"
         /\ OmitsFetchArgs(call'.args))
        => /\ call.io.query # "none" => call'.io.pagesize = call.io.pagesize
           /\ call.io.login = "ok" => call'.io.login # "none"
           /\ call.io.read # "none" => (call'.io.read # "none" /\ call'.io.query = "none")
      ]_vars

\* C7 as amended: each of max_data, token and the cache file that a
\* set_data leaves out is at its default in the load that follows, whatever
\* the preceding call used: no cap on the query, no login, no cache read
\* but a live query.
C7_FetchArgsDefaulted ==
    [][ (CallStep /\ call'.op = "set_data" /\ call'.raised = "none")
        => /\ call'.args.max_data = 0 => call'.io.pagesize = 0
           /\ call'.args.token = None => call'.io.login = "none"
           /\ call'.args.data_file_path = None
              => (call'.io.read = "none"
                  /\ (call'.io.query # "none" \/ call'.io.login = "fail"))
      ]_vars

\* A set_data without cap, token or cache file queried the archive and got
\* more rows than any cap callers pass.
C7_Witness ==
    /\ alive /\ call.op = "set_data" /\ call.raised = "none"
    /\ OmitsFetchArgs(call.args)
    /\ call.io.query = "ok" /\ call.io.pagesize = 0 /\ call.io.login = "none"
    /\ Len(data.rows) = 2

\* C8: the telescope of an instance is always the uppercase form of a known
\* mission, also after a set_data that raised.
C8_TelescopeKnown ==
    (alive /\ telescope # None) => telescope \in KnownUpper

\* C9: __init__ without start_time and end_time stores the 1990 epoch and
\* the time of the call, whose date is the date of "now".
C9_DefaultRange ==
    [][ (CallStep /\ call'.op = "__init__" /\ alive'
         /\ call'.args.start_time = Omitted /\ call'.args.end_time = Omitted)
        => /\ start_time' = DefaultMinYear
           /\ end_time' = now'
           /\ Date(end_time') = Date(now')
      ]_vars

\* C10: instruments_pie() and data_type_pie() on a table without rows give
\* an empty set of counts and raise nothing.
C10_EmptyTableEmptyCounts ==
    (call.op \in {"instruments_pie", "data_type_pie"} /\ telescope # None
        /\ data.rows = <<>>)
    => (chart.raised = "none" /\ chart.counts = <<>>)


\* The column names of a table, and a csv import that directly follows a
\* csv export.
ColumnSet(table) == { table.columns[j] : j \in DOMAIN table.columns }

CsvRoundTripStep ==
    /\ call.op = "export_data" /\ call.args.data_file_type = "csv"
    /\ call'.op = "read_data" /\ call'.args.data_file_type = "csv"

\* C11: a csv export followed at once by a csv import of the same file
\* succeeds and leaves the table with the same set of columns and the same
\* number of rows as before the export; no column is added or lost.
C11_CsvRoundTrip ==
    [][CsvRoundTripStep =>
        /\ call'.raised = "none"
        /\ ColumnSet(data') = ColumnSet(data)
        /\ Len(data'.rows) = Len(data.rows)]_vars

\* The last call was compare_scatter; one of its names is no column of the
\* table; both are columns and one of them holds text.
ScatterDone == call.op = "compare_scatter"
MissingColumn == ~HasColumn(data, scatter.x) \/ ~HasColumn(data, scatter.y)
TextColumn == ~MissingColumn /\ {scatter.x, scatter.y} \ NumericColumns # {}

\* C12: compare_scatter raises ColumnNotFound to its caller whenever
\* either name is not a column of the table and NonNumericColumn whenever a
\* named column is not numeric; it never returns normally for such inputs.
C12_ScatterRaises ==
    ScatterDone =>
        /\ MissingColumn => scatter.raised = "ColumnNotFound" /\ scatter.returned = "none"
        /\ TextColumn => scatter.raised = "NonNumericColumn" /\ scatter.returned = "none"

====
